---- MODULE Spec2Model ----
(***************************************************************************)
(* Model of jobs/pet-feeder/main.py: one invocation of run_inference_cycle *)
(* samples a window of frames, aggregates the tracked detections per track *)
(* id, derives the cycle metrics, evaluates the alert rules against the    *)
(* state file, dispatches telemetry and notification, and saves the file.  *)
(*                                                                         *)
(* Confidences are kept in hundredths (0.50 is 50, 1.00 is 100).  The      *)
(* levels used are dyadic, so the float sums of the program are exact.     *)
(***************************************************************************)
EXTENDS Integers, Sequences, FiniteSets, TLC

\* ---------------------------------------------------------------- bounds
\* Largest number of tracks a frame shows.
MaxTracks == 5
\* Only the first MaxSceneFrames frames of a stream may show tracks.
MaxSceneFrames == 3

\* ------------------------------------------------------- program constants
FRAMES_TO_PROCESS == 20
CONFIDENCE_THRESHOLD == 50
CLASS_VAZIO == 0
CLASS_RACAO == 1
OPEN_HOUR == 6
CLOSE_HOUR == 21
YELLOW_COUNT == 4
RED_COUNT == 5
HEALTH_THRESHOLD == 75
NO_PRIOR == -1

Classes == {CLASS_VAZIO, CLASS_RACAO}
\* The detector is called with conf=CONFIDENCE_THRESHOLD, so every reported
\* confidence lies in [0.50, 1.00].
ConfLevels == {CONFIDENCE_THRESHOLD, 100}
\* Clock readings on both sides of each end of the operating window.
Hours == {OPEN_HOUR - 1, OPEN_HOUR, CLOSE_HOUR - 1, CLOSE_HOUR}

GREEN == "00ff00"
YELLOW == "ffa500"
RED == "ff0000"

KEY == "last_num_empty"

VARIABLES
    pc,                 \* position inside run_inference_cycle, "idle" between invocations
    result,             \* how the last invocation ended
    current_hour,       \* now.hour read by the invocation
    file,               \* STATE_FILE on disk: [exists, text]
    frames_processed,
    detections,         \* list of {id, cls, conf}
    last_annotated_frame, \* TRUE when it is not None
    final_objects,      \* list of {id, cls, conf}, conf as [num, den]
    total_conf,
    count_conf,
    total_potes,
    num_empty,
    state,              \* dict returned by load_state, a set of <<key, value>>
    last_num_empty,
    alerts,
    color,
    should_alert,
    tb_log,             \* posts to the telemetry sink made by this invocation
    discord_log         \* posts to the notification sink made by this invocation

vars == <<pc, result, current_hour, file, frames_processed, detections,
          last_annotated_frame, final_objects, total_conf, count_conf,
          total_potes, num_empty, state, last_num_empty, alerts, color,
          should_alert, tb_log, discord_log>>

locals == <<frames_processed, detections, last_annotated_frame, final_objects,
            total_conf, count_conf, total_potes, num_empty, state,
            last_num_empty, alerts, color, should_alert>>

\* ------------------------------------------------------------ state store
\* dict.get(KEY, default) on a dict held as a set of <<key, value>> pairs.
dict_get(d, default) ==
    IF \E p \in d : p[1] = KEY
    THEN (CHOOSE p \in d : p[1] = KEY)[2]
    ELSE default

\* The assignment to the dict lost: the dict is saved as it was loaded.
dict_set_Lost(d, v) == d

\* d[KEY] = v
dict_set(d, v) == {p \in d : p[1] # KEY} \cup {<<KEY, v>>}

\* json.dump of the state dict, as the sequence of tokens written to the file.
json_dump(d) ==
    IF d = {} THEN <<"{", "}">>
    ELSE <<"{", KEY, ":", ToString(dict_get(d, NO_PRIOR)), "}">>

\* The integers a state file written by this program can hold.
Counts == 0..MaxTracks

IsCount(s) == \E n \in Counts : ToString(n) = s

\* json.load: the parsed dict, or a failure on anything but a complete document.
json_load(text) ==
    IF text = <<"{", "}">> THEN [ok |-> TRUE, value |-> {}]
    ELSE IF /\ Len(text) = 5
            /\ text[1] = "{" /\ text[2] = KEY /\ text[3] = ":"
            /\ IsCount(text[4]) /\ text[5] = "}"
         THEN [ok |-> TRUE,
               value |-> {<<KEY, CHOOSE n \in Counts : ToString(n) = text[4]>>}]
         ELSE [ok |-> FALSE, value |-> {}]

\* load_state falling back to a count of 0 when the file cannot be parsed.
load_state_ZeroOnError(f) ==
    IF ~f.exists THEN {}
    ELSE IF json_load(f.text).ok THEN json_load(f.text).value ELSE {<<KEY, 0>>}

load_state(f) ==
    IF f.exists /\ json_load(f.text).ok THEN json_load(f.text).value ELSE {}

\* The count a fresh load of the file hands to the alert rules.
PersistedLast(f) == dict_get(load_state(f), NO_PRIOR)

\* What open(STATE_FILE, 'w') leaves on disk until the document is written.
\* The document is far smaller than the write buffer of the file object, so
\* json.dump only fills the buffer and the text reaches the file in a single
\* write when the with block closes it.
Truncated == [exists |-> TRUE, text |-> <<>>]

\* ------------------------------------------------------- detection source
\* A frame showing tracks 1..n, the first k of them empty, all at confidence c.
Scene(n, k, c) ==
    [i \in 1..n |-> [id |-> i,
                     cls |-> IF i <= k THEN CLASS_VAZIO ELSE CLASS_RACAO,
                     conf |-> c]]

Scenes ==
    UNION {{Scene(n, k, c) : k \in 0..n, c \in ConfLevels} : n \in 1..MaxTracks}

\* A later frame in which only track 1 is detected again, at full confidence.
Revisits == {<<[id |-> 1, cls |-> c, conf |-> 100]>> : c \in Classes}

\* The frames model.track can report at this point of the stream, all within
\* its first MaxSceneFrames frames unless nothing has been detected: a frame
\* without tracked boxes or a scene while nothing has been detected yet, a
\* revisit of track 1 afterwards.
FrameResults ==
    IF detections = <<>>
    THEN {<<>>} \cup (IF frames_processed < MaxSceneFrames THEN Scenes ELSE {})
    ELSE IF frames_processed < MaxSceneFrames THEN Revisits ELSE {}

\* ------------------------------------------------------- track aggregator
TrackIds(dets) == {dets[i].id : i \in 1..Len(dets)}

OfTrack(dets, oid) == SelectSeq(dets, LAMBDA d : d.id = oid)

\* objects[oid] = {"votes": [...], "confs": [...]} in arrival order
Objects(dets) ==
    [oid \in TrackIds(dets) |->
        [votes |-> [i \in 1..Len(OfTrack(dets, oid)) |-> OfTrack(dets, oid)[i].cls],
         confs |-> [i \in 1..Len(OfTrack(dets, oid)) |-> OfTrack(dets, oid)[i].conf]]]

\* list.count
Count(votes, c) == Cardinality({i \in 1..Len(votes) : votes[i] = c})

RECURSIVE Sum(_)
Sum(s) == IF s = <<>> THEN 0 ELSE Head(s) + Sum(Tail(s))

\* max(set(votes), key=votes.count): max returns the first element of the set
\* iteration whose count is maximal, and a set's iteration order is not fixed
\* by the language, so on a tie any of the leading classes can come out.
MajorityChoices(votes) ==
    {c \in {votes[i] : i \in 1..Len(votes)} :
        \A o \in {votes[i] : i \in 1..Len(votes)} : Count(votes, o) <= Count(votes, c)}

\* final_objects.sort(key=id): the ids in ascending order
RECURSIVE Ascending(_)
Ascending(S) ==
    IF S = {} THEN <<>>
    ELSE LET m == CHOOSE x \in S : \A y \in S : x <= y
         IN <<m>> \o Ascending(S \ {m})

\* The aggregated objects for one outcome cls of the votes, sorted by id.
FinalObjects(objs, cls) ==
    [i \in 1..Cardinality(DOMAIN objs) |->
        LET oid == Ascending(DOMAIN objs)[i]
        IN [id |-> oid,
            cls |-> cls[oid],
            conf |-> [num |-> Sum(objs[oid].confs), den |-> Len(objs[oid].confs)]]]

\* The lists of aggregated objects the loop over objects.items() and the sort
\* can produce from a list of detections: one per outcome of the tied votes.
AggregateOutcomes(dets) ==
    LET objs == Objects(dets)
    IN {FinalObjects(objs, cls) :
            cls \in {c \in [DOMAIN objs -> Classes] :
                        \A oid \in DOMAIN objs : c[oid] \in MajorityChoices(objs[oid].votes)}}

\* total_conf += sum(data["confs"]) over the objects
TotalConf(objs) == Sum([i \in 1..Cardinality(DOMAIN objs) |->
                            Sum(objs[Ascending(DOMAIN objs)[i]].confs)])

\* count_conf counting one per object instead of one per detection.
CountConf_PerObject(objs) == Cardinality(DOMAIN objs)

\* count_conf += len(data["confs"]) over the objects
CountConf(objs) == Sum([i \in 1..Cardinality(DOMAIN objs) |->
                            Len(objs[Ascending(DOMAIN objs)[i]].confs)])

\* ------------------------------------------------------ metrics calculator
NumEmpty(objs) == Len(SelectSeq(objs, LAMBDA o : o.cls = CLASS_VAZIO))

EmptyIds(objs) ==
    LET e == SelectSeq(objs, LAMBDA o : o.cls = CLASS_VAZIO)
    IN [i \in 1..Len(e) |-> e[i].id]

\* avg_confidence = (total_conf / count_conf) if count_conf > 0 else 0,
\* as the fraction num/den of hundredths.
AvgConfidence(total, count) ==
    IF count > 0 THEN [num |-> total, den |-> count] ELSE [num |-> 0, den |-> 1]

avg_confidence == AvgConfidence(total_conf, count_conf)

\* round(): nearest multiple of 1/scale of num/den, ties to even
Round(num, den, scale) ==
    LET q == (num * scale) \div den
        r == (num * scale) % den
    IN IF 2 * r < den THEN q
       ELSE IF 2 * r > den THEN q + 1
       ELSE IF q % 2 = 0 THEN q ELSE q + 1

\* pct_empty in tenths of a percent after round(pct_empty, 1)
PctEmpty(n, total) == IF total > 0 THEN Round(n * 100, total, 10) ELSE 0

\* model_health in thousandths after round(avg_confidence, 3)
ModelHealth(avg) == Round(avg.num, avg.den * 100, 1000)

Telemetry(objs, avg) ==
    [potes_total |-> Len(objs),
     potes_empty |-> NumEmpty(objs),
     pct_empty |-> PctEmpty(NumEmpty(objs), Len(objs)),
     model_health |-> ModelHealth(avg),
     empty_ids |-> EmptyIds(objs)]

\* ------------------------------------------------------ alert state machine
\* The threshold rules without the comparison of the yellow rule with the
\* last count: a YellowWarning on every cycle with 4 empty pots.
ThresholdAlerts_LevelTriggered(n, last) ==
    IF n = YELLOW_COUNT
    THEN <<"YellowWarning">>
    ELSE IF n >= RED_COUNT
         THEN (IF n # last THEN <<"RedAlert">> ELSE <<>>)
         ELSE (IF last >= YELLOW_COUNT THEN <<"Recovery">> ELSE <<>>)

\* The threshold rules with Recovery on any change of the count instead of
\* on a last count in the band.
ThresholdAlerts_RecoveryOnChange(n, last) ==
    IF n = YELLOW_COUNT
    THEN (IF n # last THEN <<"YellowWarning">> ELSE <<>>)
    ELSE IF n >= RED_COUNT
         THEN (IF n # last THEN <<"RedAlert">> ELSE <<>>)
         ELSE (IF last # n THEN <<"Recovery">> ELSE <<>>)

\* Threshold rules: the events appended and the color set by the if/elif/else.
ThresholdAlerts(n, last) ==
    IF n = YELLOW_COUNT
    THEN (IF n # last THEN <<"YellowWarning">> ELSE <<>>)
    ELSE IF n >= RED_COUNT
         THEN (IF n # last THEN <<"RedAlert">> ELSE <<>>)
         ELSE (IF last >= YELLOW_COUNT THEN <<"Recovery">> ELSE <<>>)

\* The yellow color lost: anything below the red count stays green.
ThresholdColor_NoYellow(n) == IF n >= RED_COUNT THEN RED ELSE GREEN

ThresholdColor(n) ==
    IF n = YELLOW_COUNT THEN YELLOW
    ELSE IF n >= RED_COUNT THEN RED
    ELSE GREEN

\* The health test with <= in place of <.
LowHealth_Inclusive(avg) == avg.num * 100 <= HEALTH_THRESHOLD * avg.den * 100

\* avg_confidence < 0.75
LowHealth(avg) == avg.num * 100 < HEALTH_THRESHOLD * avg.den * 100

HealthAlerts(avg) == IF LowHealth(avg) THEN <<"HealthWarning">> ELSE <<>>

HealthColor(avg, c) == IF LowHealth(avg) THEN RED ELSE c

\* ------------------------------------------------------------------ sinks
\* One requests.post made by send_discord; delivered is FALSE when it raised.
DiscordPost(content, embed, image, delivered) ==
    [content |-> content, embed |-> embed, image |-> image, delivered |-> delivered]

\* One requests.post made by send_thingsboard; delivered is FALSE when it
\* raised or the status was not 200.
ThingsboardPost(telemetry, delivered) ==
    [telemetry |-> telemetry, delivered |-> delivered]

\* send_thingsboard posting the record twice.
send_thingsboard_Twice(log, telemetry, ok) ==
    log \o <<ThingsboardPost(telemetry, ok), ThingsboardPost(telemetry, ok)>>

\* send_thingsboard(telemetry): one requests.post, its failure only logged.
send_thingsboard(log, telemetry, ok) == Append(log, ThingsboardPost(telemetry, ok))

\* ------------------------------------------------------------------- Init
Init ==
    /\ pc = "idle"
    /\ result = "none"
    /\ current_hour = OPEN_HOUR
    /\ file = [exists |-> FALSE, text |-> <<>>]
    /\ frames_processed = 0
    /\ detections = <<>>
    /\ last_annotated_frame = FALSE
    /\ final_objects = <<>>
    /\ total_conf = 0
    /\ count_conf = 0
    /\ total_potes = 0
    /\ num_empty = 0
    /\ state = {}
    /\ last_num_empty = NO_PRIOR
    /\ alerts = <<>>
    /\ color = GREEN
    /\ should_alert = FALSE
    /\ tb_log = <<>>
    /\ discord_log = <<>>

FreshLocals ==
    /\ frames_processed' = 0
    /\ detections' = <<>>
    /\ last_annotated_frame' = FALSE
    /\ final_objects' = <<>>
    /\ total_conf' = 0
    /\ count_conf' = 0
    /\ total_potes' = 0
    /\ num_empty' = 0
    /\ state' = {}
    /\ last_num_empty' = NO_PRIOR
    /\ alerts' = <<>>
    /\ color' = GREEN
    /\ should_alert' = FALSE

\* The window closing one hour late: 21h still runs.
OutsideHours_LateClose(h) == h < OPEN_HOUR \/ h > CLOSE_HOUR

\* The hours in which the cycle is skipped.
OutsideHours(h) == h < OPEN_HOUR \/ h >= CLOSE_HOUR

\* run_inference_cycle is invoked: the operating-hours check.
Start ==
    /\ pc = "idle"
    /\ \E h \in Hours :
        /\ current_hour' = h
        /\ IF OutsideHours(h)
           THEN pc' = "idle" /\ result' = "skipped"
           ELSE pc' = "model" /\ result' = "running"
    /\ FreshLocals
    /\ tb_log' = <<>>
    /\ discord_log' = <<>>
    /\ UNCHANGED file

\* The model file is missing.
ModelMissing ==
    /\ pc = "model"
    /\ \E ok \in BOOLEAN :
        discord_log' = Append(discord_log,
                              DiscordPost(<<"CRITICAL ERROR">>, "none", FALSE, ok))
    /\ pc' = "idle"
    /\ result' = "model_missing"
    /\ UNCHANGED <<current_hour, file, locals, tb_log>>

\* YOLO(MODEL_PATH) raises.
ModelLoadError ==
    /\ pc = "model"
    /\ pc' = "idle"
    /\ result' = "model_load_error"
    /\ UNCHANGED <<current_hour, file, locals, tb_log, discord_log>>

ModelReady ==
    /\ pc = "model"
    /\ pc' = "source"
    /\ UNCHANGED <<result, current_hour, file, locals, tb_log, discord_log>>

\* The stream failure only logged, as the model load error is.
SourceUnavailable_Silent ==
    /\ pc = "source"
    /\ pc' = "idle"
    /\ result' = "no_stream"
    /\ UNCHANGED <<current_hour, file, locals, tb_log, discord_log>>

\* cap.isOpened() is false.
SourceUnavailable ==
    /\ pc = "source"
    /\ \E ok \in BOOLEAN :
        discord_log' = Append(discord_log,
                              DiscordPost(<<"WARNING">>, "none", FALSE, ok))
    /\ pc' = "idle"
    /\ result' = "no_stream"
    /\ UNCHANGED <<current_hour, file, locals, tb_log>>

SourceOpened ==
    /\ pc = "source"
    /\ pc' = "frames"
    /\ UNCHANGED <<result, current_hour, file, locals, tb_log, discord_log>>

\* One iteration of the frame loop that reads and tracks a frame.
ReadFrame ==
    /\ pc = "frames"
    /\ frames_processed < FRAMES_TO_PROCESS
    /\ \E f \in FrameResults : detections' = detections \o f
    /\ last_annotated_frame' = TRUE
    /\ frames_processed' = frames_processed + 1
    /\ UNCHANGED <<pc, result, current_hour, file, final_objects, total_conf,
                   count_conf, total_potes, num_empty, state, last_num_empty,
                   alerts, color, should_alert, tb_log, discord_log>>

\* cap.read() returns ret = False: break.
ReadFails ==
    /\ pc = "frames"
    /\ frames_processed < FRAMES_TO_PROCESS
    /\ pc' = "analysis"
    /\ UNCHANGED <<result, current_hour, file, locals, tb_log, discord_log>>

\* An inference fault that throws the frames collected so far away.
InferenceFault_Discards ==
    /\ pc = "frames"
    /\ frames_processed < FRAMES_TO_PROCESS
    /\ frames_processed' = 0
    /\ detections' = <<>>
    /\ pc' = "analysis"
    /\ UNCHANGED <<result, current_hour, file, last_annotated_frame,
                   final_objects, total_conf, count_conf, total_potes, num_empty,
                   state, last_num_empty, alerts, color, should_alert, tb_log,
                   discord_log>>

\* The try block raises, before or after results[0].plot() was stored: break.
InferenceFault ==
    /\ pc = "frames"
    /\ frames_processed < FRAMES_TO_PROCESS
    /\ \E plotted \in BOOLEAN :
        last_annotated_frame' = (last_annotated_frame \/ plotted)
    /\ pc' = "analysis"
    /\ UNCHANGED <<result, current_hour, file, frames_processed, detections,
                   final_objects, total_conf, count_conf, total_potes, num_empty,
                   state, last_num_empty, alerts, color, should_alert, tb_log,
                   discord_log>>

LoopEnded ==
    \/ pc = "analysis"
    \/ pc = "frames" /\ frames_processed >= FRAMES_TO_PROCESS

\* The zero-frames return placed after the telemetry post.
NoFrames_StillReports ==
    /\ LoopEnded
    /\ frames_processed = 0
    /\ \E ok \in BOOLEAN :
        tb_log' = send_thingsboard(tb_log, Telemetry(<<>>, AvgConfidence(0, 0)), ok)
    /\ pc' = "idle"
    /\ result' = "no_frames"
    /\ UNCHANGED <<current_hour, file, locals, discord_log>>

\* if frames_processed == 0: return
NoFrames ==
    /\ LoopEnded
    /\ frames_processed = 0
    /\ pc' = "idle"
    /\ result' = "no_frames"
    /\ UNCHANGED <<current_hour, file, locals, tb_log, discord_log>>

\* Aggregation, metrics, load_state and the telemetry post.
Analyse ==
    /\ LoopEnded
    /\ frames_processed # 0
    /\ LET objs == Objects(detections)
       IN /\ final_objects' \in AggregateOutcomes(detections)
          /\ total_conf' = TotalConf(objs)
          /\ count_conf' = CountConf(objs)
    /\ total_potes' = Len(final_objects')
    /\ num_empty' = NumEmpty(final_objects')
    /\ state' = load_state(file)
    /\ \E ok \in BOOLEAN :
        tb_log' = send_thingsboard(tb_log,
                                   Telemetry(final_objects',
                                             AvgConfidence(total_conf', count_conf')),
                                   ok)
    /\ pc' = "alert"
    /\ UNCHANGED <<result, current_hour, file, frames_processed, detections,
                   last_annotated_frame, last_num_empty, alerts, color,
                   should_alert, discord_log>>

\* Alert logic and suppression.
AlertLogic ==
    /\ pc = "alert"
    /\ last_num_empty' = dict_get(state, NO_PRIOR)
    /\ alerts' = ThresholdAlerts(num_empty, last_num_empty') \o HealthAlerts(avg_confidence)
    /\ color' = HealthColor(avg_confidence, ThresholdColor(num_empty))
    /\ should_alert' = (alerts' # <<>>)
    /\ pc' = "dispatch"
    /\ UNCHANGED <<result, current_hour, file, frames_processed, detections,
                   last_annotated_frame, final_objects, total_conf, count_conf,
                   total_potes, num_empty, state, tb_log, discord_log>>

\* The posts of the "if should_alert" branch.
AlertPosts(content, embed, image, ok1, ok2) ==
    <<DiscordPost(content, embed, image, ok1), DiscordPost(content, embed, image, ok2)>>

\* if should_alert: send_discord(...) ... else: log only
Dispatch ==
    /\ pc = "dispatch"
    /\ IF should_alert
       THEN \E ok1, ok2 \in BOOLEAN :
                discord_log' = discord_log
                               \o AlertPosts(alerts, color, last_annotated_frame, ok1, ok2)
       ELSE discord_log' = discord_log
    /\ pc' = "save"
    /\ UNCHANGED <<result, current_hour, file, locals, tb_log>>

\* state["last_num_empty"] = num_empty, then save_state opens the file for
\* writing, which truncates it.
SaveOpen ==
    /\ pc = "save"
    /\ state' = dict_set(state, num_empty)
    /\ file' = Truncated
    /\ pc' = "dump"
    /\ UNCHANGED <<result, current_hour, frames_processed, detections,
                   last_annotated_frame, final_objects, total_conf, count_conf,
                   total_potes, num_empty, last_num_empty, alerts, color,
                   should_alert, tb_log, discord_log>>

\* The document written only when the alert, if any, was delivered.
SaveDump_OnlyIfDelivered ==
    /\ pc = "dump"
    /\ file' = IF should_alert /\ \A i \in 1..Len(discord_log) : ~discord_log[i].delivered
               THEN file
               ELSE [exists |-> TRUE, text |-> json_dump(state)]
    /\ pc' = "idle"
    /\ result' = "completed"
    /\ UNCHANGED <<current_hour, locals, tb_log, discord_log>>

\* json.dump(state, f) and the close of the file; the cycle is complete.
SaveDump ==
    /\ pc = "dump"
    /\ file' = [exists |-> TRUE, text |-> json_dump(state)]
    /\ pc' = "idle"
    /\ result' = "completed"
    /\ UNCHANGED <<current_hour, locals, tb_log, discord_log>>

\* The process dies inside save_state, before the buffer is written out.
CrashDuringSave ==
    /\ pc = "dump"
    /\ pc' = "idle"
    /\ result' = "crashed"
    /\ UNCHANGED <<current_hour, file, locals, tb_log, discord_log>>

Next ==
    \/ Start
    \/ ModelMissing
    \/ ModelLoadError
    \/ ModelReady
    \/ SourceUnavailable
    \/ SourceOpened
    \/ ReadFrame
    \/ ReadFails
    \/ InferenceFault
    \/ NoFrames
    \/ Analyse
    \/ AlertLogic
    \/ Dispatch
    \/ SaveOpen
    \/ SaveDump
    \/ CrashDuringSave

Spec == Init /\ [][Next]_vars

\* ================================================================ properties
Emitted(e) == \E i \in 1..Len(alerts) : alerts[i] = e

\* The alert rules of this invocation have been evaluated.
Evaluated ==
    \/ pc \in {"dispatch", "save", "dump"}
    \/ pc = "idle" /\ result \in {"completed", "crashed"}

\* The aggregation and the metrics of this invocation have been computed.
Analysed == pc = "alert" \/ Evaluated

Completed == pc = "idle" /\ result = "completed"

\* C1: in a cycle that has evaluated its alerts and not yet saved, a
\* YellowWarning was emitted exactly when the count is 4 and differs from the
\* count a load of the state file yields, and a RedAlert exactly when the
\* count is at least 5 and differs from it.
C1_EdgeTriggered ==
    pc = "dispatch" =>
        /\ Emitted("YellowWarning") <=> (num_empty = 4 /\ num_empty # PersistedLast(file))
        /\ Emitted("RedAlert") <=> (num_empty >= 5 /\ num_empty # PersistedLast(file))

\* 4 then 4: the second cycle is in the band and emits no threshold event.
C1_Witness ==
    /\ pc = "dispatch"
    /\ num_empty = 4
    /\ PersistedLast(file) = 4
    /\ ~Emitted("YellowWarning")

\* C2 (as claimed): a cycle that processed frames but aggregated no object
\* never reaches the alert logic: it emits no event, posts nothing to the
\* notification sink and does not complete with a save.
C2_NoObjectsAborts ==
    (frames_processed > 0 /\ detections = <<>>) =>
        /\ pc \notin {"dispatch", "save", "dump"}
        /\ alerts = <<>>
        /\ discord_log = <<>>
        /\ result # "completed"

\* C3 (as claimed): a completed cycle with a non-empty event list made
\* exactly one post to the notification sink.
C3_SingleSend ==
    (Completed /\ alerts # <<>>) => Len(discord_log) = 1

\* C4: in a cycle that has evaluated its alerts and not yet saved, Recovery
\* was emitted exactly when the count a load of the state file yields is at
\* least 4 and the current count is below 4.
C4_RecoveryExact ==
    pc = "dispatch" =>
        (Emitted("Recovery") <=> (PersistedLast(file) >= 4 /\ num_empty < 4))

\* A drop from 5 or more to exactly 4: no Recovery.
C4_Witness ==
    /\ pc = "dispatch"
    /\ PersistedLast(file) >= 5
    /\ num_empty = 4
    /\ ~Emitted("Recovery")

\* C5: after a completed cycle a fresh load of the state file yields that
\* cycle's empty count, whether or not an event fired.
C5_PersistedIsCurrent ==
    Completed => PersistedLast(file) = num_empty

\* A completed cycle with 5 empty pots in which no event fired.
C5_Witness ==
    /\ Completed
    /\ num_empty = 5
    /\ alerts = <<>>
    /\ PersistedLast(file) = 5

\* C6 (as claimed): when the process died inside a save that overwrote a
\* valid record, a load yields the count of the old record or of the new one.
C6_AtomicSave ==
    (pc = "idle" /\ result = "crashed" /\ last_num_empty # NO_PRIOR) =>
        PersistedLast(file) \in {last_num_empty, num_empty}

\* Sum of the fractions of a list, as a fraction.
RECURSIVE SumFrac(_)
SumFrac(s) ==
    IF s = <<>> THEN [num |-> 0, den |-> 1]
    ELSE LET h == Head(s)
             t == SumFrac(Tail(s))
         IN [num |-> h.num * t.den + t.num * h.den, den |-> h.den * t.den]

\* Sum of the per-object mean confidences.
ObjectMeans == SumFrac([i \in 1..Len(final_objects) |-> final_objects[i].conf])

\* avg_confidence equals the mean over the objects of their mean confidence.
IsMeanOfObjectMeans ==
    avg_confidence.num * ObjectMeans.den * total_potes
        = ObjectMeans.num * avg_confidence.den

InUnitRange(avg) == 0 <= avg.num /\ avg.num <= 100 * avg.den

\* C7 (as claimed): avg_confidence is 0 without objects, else the mean of the
\* per-object mean confidences, and lies in [0, 1].
C7_MeanOverObjects ==
    Analysed =>
        /\ IF total_potes = 0 THEN avg_confidence.num = 0 ELSE IsMeanOfObjectMeans
        /\ InUnitRange(avg_confidence)

\* C7 (amended): avg_confidence is 0 without objects, else the mean of the
\* confidences of all detections of the cycle, and lies in [0, 1].
C7_MeanOverDetections ==
    Analysed =>
        /\ IF total_potes = 0
           THEN avg_confidence.num = 0
           ELSE avg_confidence.num * Len(detections)
                    = Sum([i \in 1..Len(detections) |-> detections[i].conf])
                        * avg_confidence.den
        /\ InUnitRange(avg_confidence)

\* Two or more objects with unequal support, where the two means differ.
C7_Witness ==
    /\ Analysed
    /\ total_potes >= 2
    /\ Len(detections) > total_potes
    /\ ~IsMeanOfObjectMeans

\* The class of the most recent detection of a track.
LastClass(oid) ==
    LET d == OfTrack(detections, oid) IN d[Len(d)].cls

\* C8 (as claimed): every aggregated class has the highest vote count of its
\* track, and when both classes lead it is the class of the track's most
\* recent detection.
C8_TieBreakMostRecent ==
    Analysed =>
        \A i \in 1..Len(final_objects) :
            LET o == final_objects[i]
                votes == Objects(detections)[o.id].votes
            IN /\ \A c \in Classes : Count(votes, c) <= Count(votes, o.cls)
               /\ Count(votes, CLASS_VAZIO) = Count(votes, CLASS_RACAO)
                    => o.cls = LastClass(o.id)

\* avg_confidence < 0.75, from the accumulated sums
LowAverage == count_conf = 0 \/ total_conf < 75 * count_conf

\* C9: in a cycle that has evaluated its alerts, HealthWarning was emitted
\* exactly when avg_confidence < 0.75, and then the color is Red.
C9_HealthRule ==
    Evaluated =>
        /\ Emitted("HealthWarning") <=> LowAverage
        /\ LowAverage => color = RED

\* A repeat of 4 empty pots with low confidence: the YellowWarning is
\* suppressed and the HealthWarning fires with the color Red.
C9_Witness ==
    /\ pc = "dispatch"
    /\ num_empty = 4
    /\ PersistedLast(file) = 4
    /\ total_potes > 0
    /\ alerts = <<"HealthWarning">>
    /\ color = RED

\* C10 (as claimed): a cycle that ended because the model could not be
\* prepared made one critical post to the notification sink, read no frame
\* and sent no telemetry.
C10_ModelUnavailableReported ==
    (pc = "idle" /\ result \in {"model_missing", "model_load_error"}) =>
        /\ Len(discord_log) = 1
        /\ discord_log[1].content = <<"CRITICAL ERROR">>
        /\ frames_processed = 0
        /\ tb_log = <<>>

\* C11: a cycle that got past the zero-frames check has made exactly one post
\* to the telemetry sink, with or without alert events, every other cycle
\* none; no cycle makes more than one.
C11_OneTelemetryRecord ==
    /\ Analysed => Len(tb_log) = 1
    /\ ~Analysed => tb_log = <<>>

\* A completed cycle without any alert event and with its one record sent.
C11_Witness ==
    /\ Completed
    /\ alerts = <<>>
    /\ discord_log = <<>>
    /\ Len(tb_log) = 1

\* No post to a sink is followed by another post of the same cycle to that
\* sink once it has failed.
NoPostAfterFailure(log) ==
    \A i \in 1..Len(log) : ~log[i].delivered => i = Len(log)

\* C12 (as claimed): a failed telemetry post does not keep the cycle from
\* evaluating the alerts and attempting the notification, a failed
\* notification post does not keep it from completing with the state file
\* updated, and neither sink sees a further attempt after a failed one.
C12_FailuresNonFatalNoRetry ==
    /\ Evaluated => Len(tb_log) = 1
    /\ (Completed /\ alerts # <<>>) => discord_log # <<>>
    /\ Completed => PersistedLast(file) = num_empty
    /\ NoPostAfterFailure(tb_log)
    /\ NoPostAfterFailure(discord_log)

\* The state file is missing or does not hold a complete document.
Unreadable(f) == ~f.exists \/ ~json_load(f.text).ok

\* C13: while the state file is missing or unparsable, the loaded state is
\* the empty dict and the alert rules are evaluated against the sentinel -1,
\* so no Recovery is emitted and a count in the band always raises its event.
C13_LoadFallsBackToSentinel ==
    (pc \in {"alert", "dispatch", "save"} /\ Unreadable(file)) =>
        /\ state = {}
        /\ pc # "alert" =>
            /\ last_num_empty = -1
            /\ ~Emitted("Recovery")
            /\ num_empty = 4 => Emitted("YellowWarning")
            /\ num_empty >= 5 => Emitted("RedAlert")

\* The alerts were evaluated over a state file left empty by a crashed save.
C13_Witness ==
    /\ pc = "dispatch"
    /\ file.exists
    /\ ~json_load(file.text).ok
    /\ last_num_empty = -1
    /\ num_empty >= 4

EmptyWindowState ==
    frames_processed = 0 =>
        /\ pc \notin {"alert", "dispatch", "save", "dump"}
        /\ tb_log = <<>>
        /\ (pc = "idle" /\ result = "no_frames") => discord_log = <<>>

EmptyWindowStep ==
    /\ (pc = "analysis" /\ frames_processed = 0) => (pc' = "idle" /\ result' = "no_frames")
    /\ file' # file => frames_processed > 0

\* C14: a cycle whose loop ended with zero frames processed ends there, with
\* no post to either sink, and the state file is only ever written by a
\* cycle that processed a frame.
C14_EmptyWindowIsSilent == []EmptyWindowState /\ [][EmptyWindowStep]_vars

\* A cycle that ended on zero frames over a state file holding a count.
C14_Witness ==
    /\ pc = "idle"
    /\ result = "no_frames"
    /\ frames_processed = 0
    /\ PersistedLast(file) >= 4
    /\ tb_log = <<>>
    /\ discord_log = <<>>

SkippedState ==
    result # "none" =>
        /\ result = "skipped" <=> (current_hour < 6 \/ current_hour >= 21)
        /\ result = "skipped" =>
            /\ pc = "idle"
            /\ frames_processed = 0
            /\ detections = <<>>
            /\ state = {}
            /\ tb_log = <<>>
            /\ discord_log = <<>>

SkippedStep ==
    /\ (pc = "idle" /\ result' = "skipped") => file' = file
    /\ (pc = "idle" /\ current_hour' \in 6..20) => pc' = "model"

\* C15: an invocation is skipped exactly when the hour it read is below 6 or
\* at least 21; a skipped invocation ends at once with no frame read, no
\* state loaded, no post to either sink and the state file untouched, and an
\* invocation at any hour from 6 through 20 goes on to prepare the model.
C15_OutsideHoursNoOp == []SkippedState /\ [][SkippedStep]_vars

\* An invocation at 21h skipped over a state file holding a count in the band.
C15_Witness ==
    /\ pc = "idle"
    /\ result = "skipped"
    /\ current_hour = 21
    /\ PersistedLast(file) >= 4

\* The list with the detections at positions i and j exchanged.
Swap(s, i, j) ==
    [k \in 1..Len(s) |-> IF k = i THEN s[j] ELSE IF k = j THEN s[i] ELSE s[k]]

NoStreamState ==
    (pc = "idle" /\ result = "no_stream") =>
        /\ Len(discord_log) = 1
        /\ discord_log[1].content = <<"WARNING">>
        /\ frames_processed = 0
        /\ detections = <<>>
        /\ final_objects = <<>>
        /\ state = {}
        /\ tb_log = <<>>

NoStreamStep == result' = "no_stream" => file' = file

\* C17: a cycle that ended because the stream could not be opened made one
\* post to the notification sink, the warning, read no frame, aggregated
\* nothing, sent no telemetry and left the state file as it was.
C17_SourceUnavailableWarns == []NoStreamState /\ [][NoStreamStep]_vars

\* The stream failed to open over a state file holding a count, and the
\* warning was posted.
C17_Witness ==
    /\ pc = "idle"
    /\ result = "no_stream"
    /\ Len(discord_log) = 1
    /\ PersistedLast(file) >= 4

\* C18: in a cycle that has evaluated its alerts at most one of YellowWarning,
\* RedAlert and Recovery was emitted, and the color is Red when
\* avg_confidence < 0.75 or the count is at least 5, else Yellow when the
\* count is 4, else Green, whatever the last count and the events are.
C18_ExclusiveRulesAndColor ==
    Evaluated =>
        /\ Cardinality({e \in {"YellowWarning", "RedAlert", "Recovery"} : Emitted(e)}) <= 1
        /\ color = IF LowAverage \/ num_empty >= 5 THEN "ff0000"
                   ELSE IF num_empty = 4 THEN "ffa500"
                   ELSE "00ff00"

\* A repeat of 4 empty pots with good confidence: no event, color Yellow.
C18_Witness ==
    /\ pc = "dispatch"
    /\ num_empty = 4
    /\ PersistedLast(file) = 4
    /\ alerts = <<>>
    /\ color = "ffa500"

PartialWindowState ==
    /\ frames_processed <= 20
    /\ result = "no_frames" => frames_processed = 0
    /\ Analysed => total_potes = Cardinality(TrackIds(detections))

PartialWindowStep ==
    /\ pc = "frames" =>
        \/ pc' = "frames" /\ frames_processed' = frames_processed + 1
        \/ pc' # "frames"
    /\ (pc = "frames" /\ pc' = "analysis") =>
        (detections' = detections /\ frames_processed' = frames_processed)
    /\ (pc \in {"frames", "analysis"} /\ pc' \notin {"frames", "analysis"}
            /\ frames_processed > 0) =>
        (pc' = "alert" /\ Len(tb_log') = 1 /\ detections' = detections)
    /\ pc = "alert" => pc' = "dispatch"
    /\ pc = "dispatch" => pc' = "save"
    /\ pc = "save" => pc' = "dump"
    /\ (pc = "dump" /\ result' = "completed") => PersistedLast(file') = num_empty

\* C19: the loop never counts more than 20 frames, every iteration either
\* counts one more frame or leaves the loop, and a loop left by a failed read
\* or a faulted inference keeps the frames and detections collected so far:
\* with at least one frame the cycle aggregates them, posts the telemetry,
\* evaluates the alerts and goes on to save the state.
C19_PartialWindowTolerated == []PartialWindowState /\ [][PartialWindowStep]_vars

\* A completed cycle whose loop was left early after detections were made.
C19_Witness ==
    /\ Completed
    /\ frames_processed > 0
    /\ frames_processed < 20
    /\ total_potes > 0
    /\ Len(tb_log) = 1
    /\ PersistedLast(file) = num_empty

\* A YellowWarning or RedAlert was posted to the notification sink.
ThresholdPosted ==
    \E i \in 1..Len(discord_log) :
        \E k \in 1..Len(discord_log[i].content) :
            discord_log[i].content[k] \in {"YellowWarning", "RedAlert"}

\* Every post to the notification sink failed.
NoneDelivered == \A i \in 1..Len(discord_log) : ~discord_log[i].delivered

UndeliveredState ==
    /\ (Completed /\ ThresholdPosted /\ NoneDelivered) => PersistedLast(file) = num_empty
    /\ (pc = "save" /\ num_empty = PersistedLast(file)) => ~ThresholdPosted

UndeliveredStep ==
    file' # file => (pc \in {"save", "dump"} /\ discord_log' = discord_log)

\* C20: the state file is written only after the notification posts and
\* whatever their outcome: a completed cycle whose threshold alert was not
\* delivered has still persisted its count, and a cycle that finds its own
\* count persisted posts no threshold alert, so the alert is not sent again
\* while the count stays the same.
C20_UndeliveredAlertNotResent == []UndeliveredState /\ [][UndeliveredStep]_vars

\* A completed cycle whose RedAlert posts all failed, its count persisted.
C20_Witness ==
    /\ Completed
    /\ Emitted("RedAlert")
    /\ ThresholdPosted
    /\ NoneDelivered
    /\ PersistedLast(file) = num_empty

====
